---- MODULE Spec2Model ----
(***************************************************************************)
(* Gaussian-process fit of the Mauna Loa CO2 series                        *)
(* (notebooks/book2/29/gp_mauna_loa.ipynb): build_gp, neg_log_likelihood,  *)
(* the scipy fit started at theta_init, and the prediction cell.           *)
(*                                                                         *)
(* Numbers are float64 in the notebook.  Here a positive float is a        *)
(* fixed-point integer (value * Scale) of reduced width: exp underflows to *)
(* 0 and saturates at the top of the range as float64 does, only at        *)
(* smaller arguments.  Entries of theta are log-values on an integer grid; *)
(* the mean and the observations are in ppm.  The dataset holds one        *)
(* observation, so the covariance matrix is 1 x 1 and the likelihood has a *)
(* closed form.                                                            *)
(***************************************************************************)
EXTENDS Integers, Sequences, FiniteSets, TLC

VARIABLES
    pc,          \* the notebook cell that runs next
    t, y,        \* the training inputs and observations (after the data cell)
    theta_init,  \* the array built by the "Objective" cell
    xk, fk, gk, k,  \* minimize: current iterate, its loss and gradient, iteration count
    calls,       \* every call of build_gp / neg_log_likelihood so far, with its result
    soln,        \* the OptimizeResult returned by minimize
    out,         \* what the notebook has printed or displayed
    pred,        \* the prediction cell's model and the data it was conditioned on
    arg          \* the theta of a direct call of build_gp / neg_log_likelihood

vars == <<pc, t, y, theta_init, xk, fk, gk, k, calls, soln, out, pred, arg>>

-----------------------------------------------------------------------------
\* Bounds of the model.

\* Longest theta handed to build_gp in a direct call.
MaxLen == 14
\* Largest offset of one entry of a directly passed theta from the reference.
MaxDelta == 3
\* Largest step length the line search tries along the search direction.
MaxStep == 3
\* Iteration cap of the optimizer (scipy: 200 * len(x0)).
MaxIter == 3

-----------------------------------------------------------------------------
\* float64 at reduced width.

\* Fixed-point unit: the float 1.0.
Scale == 100
\* exp saturates above ExpMax and is exactly 0 well below -ExpMax.
ExpMax == 5
\* e, in fixed point.
EulerE == 272
\* log(2 * pi), in fixed point.
Log2Pi == 184

Min(a, b) == IF a < b THEN a ELSE b
Sign(a) == IF a < 0 THEN -1 ELSE IF a > 0 THEN 1 ELSE 0

\* jnp.exp on a log-value: positive in the range, 0.0 on underflow.
RECURSIVE Exp(_)
Exp(x) ==
    IF x > ExpMax THEN Exp(ExpMax)
    ELSE IF x < -(ExpMax + 1) THEN 0
    ELSE IF x = 0 THEN Scale
    ELSE IF x > 0 THEN (Exp(x - 1) * EulerE) \div Scale
    ELSE (Exp(x + 1) * Scale) \div EulerE

\* jnp.log of a positive fixed-point value, on the integer grid.
RECURSIVE Ln(_)
Ln(v) ==
    IF v >= EulerE THEN 1 + Ln((v * Scale) \div EulerE)
    ELSE IF v < Scale THEN Ln((v * EulerE) \div Scale) - 1
    ELSE 0

\* v ** 2 in fixed point: underflows to 0.0 for small v.
Sq(v) == (v * v) \div Scale

\* A float result that may be NaN.
Fin(v) == [nan |-> FALSE, v |-> v]
NaN == [nan |-> TRUE, v |-> 0]
FAdd(a, b) == IF a.nan \/ b.nan THEN NaN ELSE Fin(a.v + b.v)
FMul(a, b) == IF a.nan \/ b.nan THEN NaN ELSE Fin((a.v * b.v) \div Scale)
\* IEEE comparison: false when either side is NaN.
FLess(a, b) == ~a.nan /\ ~b.nan /\ a.v < b.v
FLeq(a, b) == ~a.nan /\ ~b.nan /\ a.v <= b.v

-----------------------------------------------------------------------------
\* Kernel objects (tinygp.kernels) as trees.

ExpSquared(scale) == [op |-> "ExpSquared", scale |-> scale]
ExpSineSquared(scale, gamma) == [op |-> "ExpSineSquared", scale |-> scale, gamma |-> gamma]
RationalQuadratic(alpha, scale) == [op |-> "RationalQuadratic", alpha |-> alpha, scale |-> scale]
\* scalar * kernel
Scaled(c, kern) == [op |-> "Scale", c |-> c, k |-> kern]
\* kernel * kernel
Product(l, r) == [op |-> "Product", l |-> l, r |-> r]
\* kernel + kernel
Sum(l, r) == [op |-> "Sum", l |-> l, r |-> r]

\* theta[i] on a jax array, i a 0-based Python int: an index past the end is
\* clamped to the last entry (the array is non-empty where this is used).
At(p, i) == p[Min(i, Len(p) - 1) + 1]

\* mean = theta[-1]
GpMean(theta) == theta[Len(theta)]

\* Variant: the slice is used without taking the exp.
PositiveParamsRaw(theta) == [i \in 1..(Len(theta) - 1) |-> theta[i]]

\* theta = jnp.exp(theta[:-1])
PositiveParams(theta) == [i \in 1..(Len(theta) - 1) |-> Exp(theta[i])]

\* k3 = theta[6] ** 2 * kernels.RationalQuadratic(alpha=theta[7], scale=theta[8])
K3(p) == Scaled(Sq(At(p, 6)), RationalQuadratic(At(p, 7), At(p, 8)))

\* Variant: the last term is left out of the sum.
BuildKernelNoK4(p) ==
    LET k1 == Scaled(Sq(At(p, 0)), ExpSquared(At(p, 1)))
        k2 == Product(Scaled(Sq(At(p, 2)), ExpSquared(At(p, 3))),
                      ExpSineSquared(At(p, 4), At(p, 5)))
    IN Sum(Sum(k1, k2), K3(p))

\* k1 .. k4 and kernel = k1 + k2 + k3 + k4
BuildKernel(p) ==
    LET k1 == Scaled(Sq(At(p, 0)), ExpSquared(At(p, 1)))
        k2 == Product(Scaled(Sq(At(p, 2)), ExpSquared(At(p, 3))),
                      ExpSineSquared(At(p, 4), At(p, 5)))
        k4 == Scaled(Sq(At(p, 9)), ExpSquared(At(p, 10)))
    IN Sum(Sum(Sum(k1, k2), K3(p)), k4)

\* diag = theta[11] ** 2
NoiseDiag(p) == Sq(At(p, 11))

NoKernel == [op |-> "none"]
Raised(e) == [status |-> e, kernel |-> NoKernel, X |-> <<>>, diag |-> 0, mean |-> 0]

\* build_gp(theta, X): the GaussianProcess, or the exception the indexing raises
\* (theta[-1] of an empty array, theta[0] of an empty jax array).
BuildGp(theta, X) ==
    IF Len(theta) = 0 THEN Raised("IndexError")
    ELSE LET p == PositiveParams(theta)
         IN IF Len(p) = 0 THEN Raised("IndexError")
            ELSE [status |-> "ok", kernel |-> BuildKernel(p), X |-> X,
                  diag |-> NoiseDiag(p), mean |-> GpMean(theta)]

-----------------------------------------------------------------------------
\* The likelihood of one observation (tinygp.GaussianProcess.log_probability).

\* k(x, x) of a kernel: every primitive is 1.0 at distance 0, and 0/0 = NaN when
\* its length scale (or the rational-quadratic exponent) has underflowed to 0.
RECURSIVE KernelAtZero(_)
KernelAtZero(kern) ==
    CASE kern.op = "Sum" -> FAdd(KernelAtZero(kern.l), KernelAtZero(kern.r))
      [] kern.op = "Product" -> FMul(KernelAtZero(kern.l), KernelAtZero(kern.r))
      [] kern.op = "Scale" -> FMul(Fin(kern.c), KernelAtZero(kern.k))
      [] kern.op = "RationalQuadratic" ->
            IF kern.scale = 0 \/ kern.alpha = 0 THEN NaN ELSE Fin(Scale)
      [] OTHER -> IF kern.scale = 0 THEN NaN ELSE Fin(Scale)

\* Training covariance entry (i, j): the kernel plus the noise on the diagonal.
\* With one training input only entry (1, 1) exists.
NoiseAt(g, i, j) == IF i = j THEN g.diag ELSE 0
Covariance(g) == FAdd(KernelAtZero(g.kernel), Fin(NoiseAt(g, 1, 1)))

\* gp.log_probability(y): NaN when the covariance is not positive definite
\* (the factorization divides by zero), no exception.
LogProbability(g, yv) ==
    LET sigma == Covariance(g)
        res == yv[1] - g.mean
    IN IF sigma.nan \/ sigma.v <= 0 THEN NaN
       ELSE Fin(-(((res * res * Scale * Scale) \div sigma.v
                   + Scale * Ln(sigma.v) + Log2Pi) \div 2))

FNeg(a) == IF a.nan THEN NaN ELSE Fin(-a.v)

\* neg_log_likelihood(theta, X, y): what was built and the loss returned.
NegLogLikelihood(theta, X, yv) ==
    LET g == BuildGp(theta, X)
    IN [fn |-> "neg_log_likelihood", theta |-> theta, X |-> X, y |-> yv,
        status |-> g.status, gp |-> g,
        loss |-> IF g.status = "ok" THEN FNeg(LogProbability(g, yv)) ELSE NaN]

\* A direct call of build_gp(theta, X), as a call record.
BuildGpCall(theta, X) ==
    LET g == BuildGp(theta, X)
    IN [fn |-> "build_gp", theta |-> theta, X |-> X, y |-> <<>>,
        status |-> g.status, gp |-> g, loss |-> NaN]

\* Variant: the exp is written into the argument (theta[:-1] = exp(theta[:-1])).
AfterCallInPlace(theta) ==
    [i \in 1..Len(theta) |-> IF i < Len(theta) THEN Exp(theta[i]) ELSE theta[i]]

\* The caller's array once build_gp has returned: `theta = jnp.exp(theta[:-1])`
\* binds a new array to the local name, so the argument is left as it was.
AfterCall(theta) == theta

\* The loss alone.
Loss(theta, X, yv) == NegLogLikelihood(theta, X, yv).loss

\* theta with entry c moved by d.
Shift(theta, c, d) == [theta EXCEPT ![c] = @ + d]

\* The gradient of the loss, to the grid's resolution: per entry, 1 when the loss
\* falls towards smaller values of the entry, -1 when it falls towards larger
\* ones, 0 when neither neighbour is lower (a NaN neighbour is not lower).
GradSign(theta, X, yv) ==
    LET here == Loss(theta, X, yv)
        at(c, d) == LET l == Loss(Shift(theta, c, d), X, yv)
                    IN IF l.nan THEN here ELSE l
    IN [c \in 1..Len(theta) |->
            IF here.nan THEN 0
            ELSE LET up == at(c, 1).v
                     down == at(c, -1).v
                 IN IF up < here.v /\ up <= down THEN -1
                    ELSE IF down < here.v THEN 1
                    ELSE 0]

\* obj = jax.jit(jax.value_and_grad(neg_log_likelihood)): the loss and its gradient.
Obj(theta, X, yv) ==
    [call |-> NegLogLikelihood(theta, X, yv), grad |-> GradSign(theta, X, yv)]

\* xk + alpha * pk for the descent direction pk = -grad.
Trial(theta, d, alpha) == [c \in 1..Len(theta) |-> theta[c] - alpha * d[c]]

IsZero(d) == \A c \in 1..Len(d) : d[c] = 0

-----------------------------------------------------------------------------
\* The notebook's cells.

\* The hyperparameters of Rasmussen & Williams, in fixed point.
RWParams == <<6600, 6700, 240, 9000, 100, 430, 66, 120, 78, 18, 160, 19>>
mean_output == 340

\* theta_init = jnp.append(jnp.log(jnp.array([...])), mean_output)
ThetaInit == Append([i \in 1..Len(RWParams) |-> Ln(RWParams[i])], mean_output)

\* The data cell's result: t (years before 1996) and y (ppm), one observation.
Times == {<<1958>>, <<1995>>}
Readings == {<<338>>, <<340>>, <<341>>, <<343>>}

\* x = jnp.linspace(max(t), 2025, 2000)
PredictTo == 2025
PredictPoints == 2000

NoSoln == [status |-> "none"]
NoPred == [status |-> "none"]

InitData ==
    /\ t \in Times
    /\ y \in Readings
    /\ theta_init = ThetaInit
    /\ xk = <<>> /\ fk = NaN /\ gk = <<>> /\ k = 0
    /\ calls = {}
    /\ soln = NoSoln
    /\ out = <<>>
    /\ pred = NoPred

Init ==
    /\ pc = "objective"
    /\ InitData
    /\ arg = <<>>

\* obj(theta_init, t, y): the value is displayed.
CellObjective ==
    /\ pc = "objective"
    /\ LET e == Obj(theta_init, t, y)
       IN /\ calls' = calls \cup {e.call}
          /\ out' = Append(out, [cell |-> "objective", field |-> "value_and_grad",
                                 val |-> e.call.loss])
    /\ theta_init' = AfterCall(theta_init)
    /\ pc' = "minimize"
    /\ UNCHANGED <<t, y, xk, fk, gk, k, soln, pred, arg>>

\* minimize(obj, theta_init, jac=True, args=(t, y)) starts: x0 is evaluated.
MinimizeBegin ==
    /\ pc = "minimize"
    /\ LET e == Obj(theta_init, t, y)
       IN /\ calls' = calls \cup {e.call}
          /\ xk' = theta_init
          /\ fk' = e.call.loss
          /\ gk' = e.grad
    /\ k' = 0
    /\ pc' = "iterate"
    /\ UNCHANGED <<t, y, theta_init, soln, out, pred, arg>>

\* The optimizer returns: soln is bound and soln.fun is printed.
Return(x, fun, success, message) ==
    /\ soln' = [status |-> "returned", x |-> x, fun |-> fun, success |-> success,
                message |-> message]
    /\ out' = Append(out, [cell |-> "fit", field |-> "fun", val |-> fun])
    /\ pc' = "predict"

\* The gradient norm is below the tolerance.
MinimizeConverged ==
    /\ pc = "iterate"
    /\ IsZero(gk)
    /\ Return(xk, fk, TRUE, "success")
    /\ UNCHANGED <<t, y, theta_init, xk, fk, gk, k, calls, pred, arg>>

\* The iteration cap is reached.
MinimizeMaxIter ==
    /\ pc = "iterate"
    /\ ~IsZero(gk)
    /\ k >= MaxIter
    /\ Return(xk, fk, FALSE, "maxiter")
    /\ UNCHANGED <<t, y, theta_init, xk, fk, gk, k, calls, pred, arg>>

Searching ==
    /\ pc = "iterate"
    /\ ~IsZero(gk)
    /\ k < MaxIter

\* One trial of the line search: obj at xk + alpha * pk (the loss decides the
\* trial; the gradient returned with it is kept when the step is taken).
\* A finite loss below fk satisfies the decrease condition: the step is taken.
LineSearchAccept(alpha) ==
    /\ Searching
    /\ LET e == NegLogLikelihood(Trial(xk, gk, alpha), t, y)
       IN /\ FLess(e.loss, fk)
          /\ calls' = calls \cup {e}
          /\ xk' = e.theta
          /\ fk' = e.loss
          /\ gk' = Obj(e.theta, t, y).grad
    /\ k' = k + 1
    /\ UNCHANGED <<pc, t, y, theta_init, soln, out, pred, arg>>

\* A finite loss that is no decrease: the trial is dropped.
LineSearchReject(alpha) ==
    /\ Searching
    /\ LET e == NegLogLikelihood(Trial(xk, gk, alpha), t, y)
       IN /\ ~e.loss.nan
          /\ ~FLess(e.loss, fk)
          /\ calls' = calls \cup {e}
    /\ UNCHANGED <<pc, t, y, theta_init, xk, fk, gk, k, soln, out, pred, arg>>

\* A NaN loss fails none of the line search's comparisons: the step is taken,
\* and the optimizer stops on the non-finite value with the new iterate.
LineSearchNaN(alpha) ==
    /\ Searching
    /\ LET e == NegLogLikelihood(Trial(xk, gk, alpha), t, y)
       IN /\ e.loss.nan
          /\ calls' = calls \cup {e}
          /\ xk' = e.theta
          /\ fk' = e.loss
          /\ gk' = Obj(e.theta, t, y).grad
          /\ Return(e.theta, e.loss, FALSE, "precision loss")
    /\ k' = k + 1
    /\ UNCHANGED <<t, y, theta_init, pred, arg>>

\* No step length gives a finite decrease: the line search fails and the
\* optimizer returns the current iterate.
LineSearchFail ==
    /\ Searching
    /\ \A alpha \in 1..MaxStep : ~FLess(Loss(Trial(xk, gk, alpha), t, y), fk)
    /\ Return(xk, fk, FALSE, "precision loss")
    /\ UNCHANGED <<t, y, theta_init, xk, fk, gk, k, calls, pred, arg>>

\* Variant: the final model is built from the starting point.
FittedThetaInit == theta_init

\* The theta the final model is built from: soln.x.
FittedTheta == soln.x

\* x = linspace(max(t), 2025, 2000); gp = build_gp(soln.x, t);
\* gp.condition(y, x)
CellPredict ==
    /\ pc = "predict"
    /\ LET b == BuildGpCall(FittedTheta, t)
       IN /\ calls' = calls \cup {b}
          /\ pred' = [status |-> "predicted", theta |-> b.theta, X |-> b.X, y |-> y,
                      gp |-> b.gp,
                      from |-> t[Len(t)], to |-> PredictTo, n |-> PredictPoints]
    /\ soln' = [soln EXCEPT !.x = AfterCall(@)]
    /\ pc' = "done"
    /\ UNCHANGED <<t, y, theta_init, xk, fk, gk, k, out, arg>>

Next ==
    \/ CellObjective
    \/ MinimizeBegin
    \/ MinimizeConverged
    \/ MinimizeMaxIter
    \/ \E alpha \in 1..MaxStep : LineSearchAccept(alpha)
    \/ \E alpha \in 1..MaxStep : LineSearchReject(alpha)
    \/ \E alpha \in 1..MaxStep : LineSearchNaN(alpha)
    \/ LineSearchFail
    \/ CellPredict

Spec == Init /\ [][Next]_vars

-----------------------------------------------------------------------------
\* build_gp and neg_log_likelihood called directly, with any theta.

\* The reference theta cut or padded to n entries.
BaseTheta(n) == [i \in 1..n |-> IF i <= Len(ThetaInit) THEN ThetaInit[i] ELSE 0]

ThetaInputs ==
    {<<>>} \cup
    UNION {{Shift(BaseTheta(n), c, d) : c \in 1..n, d \in (-MaxDelta)..MaxDelta} :
           n \in 1..MaxLen}

InitCall ==
    /\ pc = "call"
    /\ InitData
    /\ arg \in ThetaInputs

CallBuildGp ==
    /\ pc = "call"
    /\ calls' = calls \cup {BuildGpCall(arg, t)}
    /\ arg' = AfterCall(arg)
    /\ pc' = "returned"
    /\ UNCHANGED <<t, y, theta_init, xk, fk, gk, k, soln, out, pred>>

CallNegLogLikelihood ==
    /\ pc = "call"
    /\ calls' = calls \cup {NegLogLikelihood(arg, t, y)}
    /\ arg' = AfterCall(arg)
    /\ pc' = "returned"
    /\ UNCHANGED <<t, y, theta_init, xk, fk, gk, k, soln, out, pred>>

NextCall ==
    \/ CallBuildGp
    \/ CallNegLogLikelihood

SpecCall == InitCall /\ [][NextCall]_vars

-----------------------------------------------------------------------------
\* Reading a kernel tree.

\* The terms of a sum, left to right.
RECURSIVE Terms(_)
Terms(kern) ==
    IF kern.op = "Sum" THEN Terms(kern.l) \o Terms(kern.r) ELSE <<kern>>

\* The kernels multiplied together in one term, scalars aside.
RECURSIVE Factors(_)
Factors(kern) ==
    CASE kern.op = "Product" -> Factors(kern.l) \o Factors(kern.r)
      [] kern.op = "Scale" -> Factors(kern.k)
      [] OTHER -> <<kern>>

\* The scalars multiplied into a kernel.
RECURSIVE Scalars(_)
Scalars(kern) ==
    CASE kern.op \in {"Sum", "Product"} -> Scalars(kern.l) \o Scalars(kern.r)
      [] kern.op = "Scale" -> <<kern.c>> \o Scalars(kern.k)
      [] OTHER -> <<>>

\* The parameters of a primitive kernel.
PrimParams(kern) ==
    CASE kern.op = "ExpSquared" -> {kern.scale}
      [] kern.op = "ExpSineSquared" -> {kern.scale, kern.gamma}
      [] kern.op = "RationalQuadratic" -> {kern.alpha, kern.scale}
      [] OTHER -> {}

Range(f) == {f[i] : i \in DOMAIN f}
Shape(term) == [i \in DOMAIN Factors(term) |-> Factors(term)[i].op]

\* Every primitive kernel of a model, and every number handed to a kernel or to
\* the GaussianProcess as a positive parameter.
Prims(g) == UNION {Range(Factors(term)) : term \in Range(Terms(g.kernel))}
HandedOver(g) ==
    UNION {PrimParams(q) : q \in Prims(g)} \cup Range(Scalars(g.kernel)) \cup {g.diag}

\* The exponentiated entries 0 .. N-2 of a theta, and their squares.
Exps(theta) == {Exp(theta[i]) : i \in 1..(Len(theta) - 1)}
Squares(theta) == {Sq(v) : v \in Exps(theta)}

Built == {c \in calls : c.status = "ok"}

-----------------------------------------------------------------------------
\* C1: in every model build_gp returns for a theta of length N, each kernel
\* parameter is the exp of one of the entries 0 .. N-2, each amplitude factor and
\* the noise variance is the square of such an exp, and the mean is theta[N-1]
\* itself.
C1_ExpThenMean ==
    \A c \in Built :
        /\ c.gp.mean = c.theta[Len(c.theta)]
        /\ \A q \in Prims(c.gp) : PrimParams(q) \subseteq Exps(c.theta)
        /\ Range(Scalars(c.gp.kernel)) \subseteq Squares(c.theta)
        /\ c.gp.diag \in Squares(c.theta)

\* A 13-entry theta whose mean differs from its own exp has been built.
C1_Witness ==
    \E c \in Built :
        /\ c.fn = "build_gp" /\ Len(c.theta) = 13
        /\ Exp(c.theta[13]) # c.theta[13]
        /\ \E i \in 1..12 : Exp(c.theta[i]) # c.theta[i]

C3_RolesAsInFormula ==
    \A c \in Built :
        Len(c.theta) = 13 =>
            LET e(i) == Exp(c.theta[i + 1])
            IN /\ c.gp.kernel =
                    Sum(Sum(Sum(Scaled(Sq(e(0)), ExpSquared(e(1))),
                                Product(Scaled(Sq(e(2)), ExpSquared(e(3))),
                                        ExpSineSquared(e(4), e(5)))),
                            Scaled(Sq(e(6)), RationalQuadratic(e(8), e(7)))),
                        Scaled(Sq(e(9)), ExpSquared(e(10))))
               /\ c.gp.diag = Sq(e(11))

\* C4: a call with a theta that has not 13 entries fails: it returns no model
\* and no loss.
C4_WrongLengthFails ==
    \A c \in calls : Len(c.theta) # 13 => c.status # "ok"

\* C5: every number build_gp hands to a kernel or to the GaussianProcess for a
\* theta the optimizer evaluates is strictly positive.
C5_StrictlyPositive ==
    \A c \in Built : \A v \in HandedOver(c.gp) : v > 0

\* C6: a theta at which the covariance is not positive definite (the loss is
\* NaN) is never the fit's result.
C6_FailedTrialNotReturned ==
    soln.status = "returned" => ~soln.fun.nan /\ ~Loss(soln.x, t, y).nan

\* C7: the prediction is made from a theta of a fit that did not converge only
\* when the notebook has reported the convergence status.
C7_NonConvergenceReported ==
    pred.status = "predicted" /\ ~soln.success =>
        \E i \in DOMAIN out : out[i].field \in {"success", "status", "message"}

\* C8: the loss the fit reports is no worse than the loss at theta_init, the
\* value the cell obj(theta_init, t, y) displayed.
C8_NoWorseThanInit ==
    soln.status = "returned" => FLeq(soln.fun, out[1].val)

\* C9: the cells run in order.  Nothing is evaluated before theta_init exists,
\* the optimizer has not returned while it evaluates, no prediction exists
\* before it has returned, and the final model is build_gp(soln.x, t)
\* conditioned on y: the same t and y every objective evaluation used.
C9_FitThenPredict ==
    /\ pc \in {"objective", "minimize", "iterate", "predict", "done"}
    /\ theta_init = ThetaInit
    /\ pc = "objective" => calls = {}
    /\ pc \in {"objective", "minimize", "iterate"} => soln = NoSoln
    /\ pc # "done" => pred = NoPred
    /\ pc \in {"predict", "done"} => soln.status = "returned"
    /\ \A c \in calls : c.X = t /\ (c.fn = "neg_log_likelihood" => c.y = y)
    /\ pc = "done" =>
          /\ pred.status = "predicted"
          /\ pred.theta = soln.x /\ pred.X = t /\ pred.y = y
          /\ \E c \in calls : c.fn = "build_gp" /\ c.theta = soln.x /\ c.gp = pred.gp
          /\ \A c \in calls : c.fn = "build_gp" => c.theta = soln.x

\* The prediction was made after a fit that moved away from theta_init.
C9_Witness ==
    pc = "done" /\ pred.theta # theta_init /\ Cardinality(calls) >= 3

====
